---- MODULE Spec2Model ----
(***************************************************************************)
(* Model of scripts/ts_morph_editor.js: the stdin/stdout boundary, the     *)
(* applyEdits pipeline and the structural editors it dispatches to.        *)
(*                                                                         *)
(* Text is kept as text: change descriptions, file paths and source        *)
(* content are strings, the substring tests and regular expressions of the *)
(* script are evaluated on their characters, and the source file's full    *)
(* text is printed from the tree whenever the script reads it.             *)
(***************************************************************************)
EXTENDS Naturals, Sequences, FiniteSets, TLC

(***************************************************************************)
(* Characters and strings                                                  *)
(***************************************************************************)
Char(s, i) == SubSeq(s, i, i)

UpperChars == "ABCDEFGHIJKLMNOPQRSTUVWXYZ"
LowerChars == "abcdefghijklmnopqrstuvwxyz"
DigitChars == "0123456789"

\* the set of the characters of a string
CharsOf(s) == {Char(s, i) : i \in 1..Len(s)}

\* \w of a JavaScript regular expression
WordChars == CharsOf(UpperChars \o LowerChars \o DigitChars \o "_")
\* \s of a JavaScript regular expression (the members that occur here)
SpaceChars == CharsOf(" \t\n")
QuoteChars == CharsOf("'\"")

SetMin(S) == CHOOSE x \in S : \A y \in S : x <= y

\* String.prototype.toLowerCase / toUpperCase, character by character
ToLower == [c \in CharsOf(UpperChars) |->
               Char(LowerChars, CHOOSE i \in 1..Len(UpperChars) : Char(UpperChars, i) = c)]
ToUpper == [c \in CharsOf(LowerChars) |->
               Char(UpperChars, CHOOSE i \in 1..Len(LowerChars) : Char(LowerChars, i) = c)]

LowerChar(c) == IF c \in DOMAIN ToLower THEN ToLower[c] ELSE c
UpperChar(c) == IF c \in DOMAIN ToUpper THEN ToUpper[c] ELSE c

RECURSIVE toLowerCase(_)
toLowerCase(s) ==
    IF s = "" THEN "" ELSE LowerChar(Char(s, 1)) \o toLowerCase(Tail(s))

\* String.prototype.includes
StartsAt(s, i, kw) ==
    /\ i >= 1
    /\ i + Len(kw) - 1 <= Len(s)
    /\ SubSeq(s, i, i + Len(kw) - 1) = kw

includes(s, kw) == \E i \in 1..(Len(s) + 1) : StartsAt(s, i, kw)

\* String.prototype.trim
RECURSIVE TrimLeft(_)
TrimLeft(s) ==
    IF s # "" /\ Char(s, 1) \in SpaceChars THEN TrimLeft(Tail(s)) ELSE s

RECURSIVE TrimRight(_)
TrimRight(s) ==
    IF s # "" /\ Char(s, Len(s)) \in SpaceChars
    THEN TrimRight(SubSeq(s, 1, Len(s) - 1))
    ELSE s

trim(s) == TrimRight(TrimLeft(s))

\* String.prototype.split(',') followed by .map(n => n.trim())
RECURSIVE SplitComma(_, _)
SplitComma(s, acc) ==
    IF s = "" THEN <<acc>>
    ELSE IF Char(s, 1) = "," THEN <<acc>> \o SplitComma(Tail(s), "")
    ELSE SplitComma(Tail(s), acc \o Char(s, 1))

RECURSIVE MapTrim(_)
MapTrim(q) == IF q = <<>> THEN <<>> ELSE <<trim(Head(q))>> \o MapTrim(Tail(q))

SplitNames(s) == MapTrim(SplitComma(s, ""))

(***************************************************************************)
(* Regular expressions of the script.  A match is [ok, cap]: whether the   *)
(* pattern matches and its first capture group.  Matching is leftmost, the *)
(* quantifiers are greedy, and /i patterns compare lower-cased text.       *)
(***************************************************************************)
NoMatch == [ok |-> FALSE, cap |-> ""]
Match(c) == [ok |-> TRUE, cap |-> c]

\* first index >= i whose character is not in cls (Len(s)+1 when none)
RECURSIVE SpanIn(_, _, _)
SpanIn(s, i, cls) ==
    IF i <= Len(s) /\ Char(s, i) \in cls THEN SpanIn(s, i + 1, cls) ELSE i

\* first index >= i whose character is in cls (Len(s)+1 when none)
RECURSIVE SpanNotIn(_, _, _)
SpanNotIn(s, i, cls) ==
    IF i <= Len(s) /\ Char(s, i) \notin cls THEN SpanNotIn(s, i + 1, cls) ELSE i

\* the leftmost start in 1..Len(s) for which At(i) matches
Leftmost(s, At(_)) ==
    LET starts == {i \in 1..Len(s) : At(i).ok}
    IN  IF starts = {} THEN NoMatch ELSE At(SetMin(starts))

\* sep+ (chars of sepCls) then a capture of cap+ (chars of capCls), from j
SepThenWord(s, j, sepCls, capCls) ==
    LET k == SpanIn(s, j, sepCls)
        e == SpanIn(s, k, capCls)
    IN  IF k > j /\ e > k THEN Match(SubSeq(s, k, e - 1)) ELSE NoMatch

\* sep+ then a capture of [^stop]+, from j.  The separators are not stop
\* characters, so when the greedy sep+ leaves nothing to capture the matcher
\* backtracks by one and captures the last separator.
SepThenUntil(s, j, sepCls, stopCls) ==
    LET k == SpanIn(s, j, sepCls)
        e == SpanNotIn(s, k, stopCls)
    IN  IF k > j /\ e > k THEN Match(SubSeq(s, k, e - 1))
        ELSE IF k > j + 1 THEN Match(Char(s, k - 1))
        ELSE NoMatch

\* /from\s+['"]([^'"]+)['"]/i
FromRegexAt(s, ls, i) ==
    LET k == SpanIn(s, i + 4, SpaceChars)
        e == SpanNotIn(s, k + 1, QuoteChars)
    IN  IF /\ StartsAt(ls, i, "from")
           /\ k > i + 4
           /\ k <= Len(s) /\ Char(s, k) \in QuoteChars
           /\ e > k + 1
           /\ e <= Len(s)
        THEN Match(SubSeq(s, k + 1, e - 1))
        ELSE NoMatch

FromRegex(s) ==
    LET ls == toLowerCase(s)
        At(i) == FromRegexAt(s, ls, i)
    IN  Leftmost(s, At)

\* the alternation (?:import|add import) at i: the index after it, 0 when none
ImportKeywordEnd(ls, i) ==
    IF StartsAt(ls, i, "import") THEN i + 6
    ELSE IF StartsAt(ls, i, "add import") THEN i + 10
    ELSE 0

\* /(?:import|add import)\s+{([^}]+)}/i
ImportNamesRegexAt(s, ls, i) ==
    LET j == ImportKeywordEnd(ls, i)
        k == SpanIn(s, j, SpaceChars)
        e == SpanNotIn(s, k + 1, {"}"})
    IN  IF /\ j > 0
           /\ k > j
           /\ k <= Len(s) /\ Char(s, k) = "{"
           /\ e > k + 1
           /\ e <= Len(s)
        THEN Match(SubSeq(s, k + 1, e - 1))
        ELSE NoMatch

ImportNamesRegex(s) ==
    LET ls == toLowerCase(s)
        At(i) == ImportNamesRegexAt(s, ls, i)
    IN  Leftmost(s, At)

\* /(?:import|add import)\s+(\w+)/i
ImportWordRegexAt(s, ls, i) ==
    LET j == ImportKeywordEnd(ls, i)
    IN  IF j > 0 THEN SepThenWord(s, j, SpaceChars, WordChars) ELSE NoMatch

ImportWordRegex(s) ==
    LET ls == toLowerCase(s)
        At(i) == ImportWordRegexAt(s, ls, i)
    IN  Leftmost(s, At)

\* the alternation (?:add|create) at i: the index after it, 0 when none
AddCreateEnd(ls, i) ==
    IF StartsAt(ls, i, "add") THEN i + 3
    ELSE IF StartsAt(ls, i, "create") THEN i + 6
    ELSE 0

\* (?:add|create)\s+ at i: the index after the white space, 0 when none
AddCreateThenSpace(s, ls, i) ==
    LET j == AddCreateEnd(ls, i)
        k == SpanIn(s, j, SpaceChars)
    IN  IF j > 0 /\ k > j THEN k ELSE 0

\* /(?:add|create)\s+(?:method|function)\s+(\w+)/i
MethodRegexAt(s, ls, i) ==
    LET k == AddCreateThenSpace(s, ls, i)
        m == IF k = 0 THEN 0
             ELSE IF StartsAt(ls, k, "method") THEN k + 6
             ELSE IF StartsAt(ls, k, "function") THEN k + 8
             ELSE 0
    IN  IF m > 0 THEN SepThenWord(s, m, SpaceChars, WordChars) ELSE NoMatch

MethodRegex(s) ==
    LET ls == toLowerCase(s)
        At(i) == MethodRegexAt(s, ls, i)
    IN  Leftmost(s, At)

\* /(?:add|create)\s+(?:prop|property)[:\s]+(\w+)/i
PropRegexAt(s, ls, i) ==
    LET k == AddCreateThenSpace(s, ls, i)
        short == IF k > 0 /\ StartsAt(ls, k, "prop")
                 THEN SepThenWord(s, k + 4, {":"} \cup SpaceChars, WordChars)
                 ELSE NoMatch
        long == IF k > 0 /\ StartsAt(ls, k, "property")
                THEN SepThenWord(s, k + 8, {":"} \cup SpaceChars, WordChars)
                ELSE NoMatch
    IN  IF short.ok THEN short ELSE long

PropRegex(s) ==
    LET ls == toLowerCase(s)
        At(i) == PropRegexAt(s, ls, i)
    IN  Leftmost(s, At)

\* /(?:add|create)\s+state[:\s]+(\w+)/i
StateRegexAt(s, ls, i) ==
    LET k == AddCreateThenSpace(s, ls, i)
    IN  IF k > 0 /\ StartsAt(ls, k, "state")
        THEN SepThenWord(s, k + 5, {":"} \cup SpaceChars, WordChars)
        ELSE NoMatch

StateRegex(s) ==
    LET ls == toLowerCase(s)
        At(i) == StateRegexAt(s, ls, i)
    IN  Leftmost(s, At)

\* /button[:\s]+([^,\.]+)/i
ButtonTextRegexAt(s, ls, i) ==
    IF StartsAt(ls, i, "button")
    THEN SepThenUntil(s, i + 6, {":"} \cup SpaceChars, {",", "."})
    ELSE NoMatch

ButtonTextRegex(s) ==
    LET ls == toLowerCase(s)
        At(i) == ButtonTextRegexAt(s, ls, i)
    IN  Leftmost(s, At)

\* /onclick[:\s]+([^,\.]+)/i
OnClickRegexAt(s, ls, i) ==
    IF StartsAt(ls, i, "onclick")
    THEN SepThenUntil(s, i + 7, {":"} \cup SpaceChars, {",", "."})
    ELSE NoMatch

OnClickRegex(s) ==
    LET ls == toLowerCase(s)
        At(i) == OnClickRegexAt(s, ls, i)
    IN  Leftmost(s, At)

(***************************************************************************)
(* The source file (ts-morph SourceFile).  The tree holds what the editors *)
(* read and write: import declarations, interfaces, classes and top-level  *)
(* functions, plus the remaining text of the file.                         *)
(***************************************************************************)
ImportDecl(module, def, ns, named, quote) ==
    [moduleSpecifier |-> module, defaultImport |-> def, namespaceImport |-> ns,
     namedImports |-> named, quote |-> quote]

Param(name, type, scope) == [name |-> name, type |-> type, scope |-> scope]
Method(name, stmt) == [name |-> name, stmt |-> stmt]
Property(name, decorator) == [name |-> name, decorator |-> decorator]
Statement(kind, text) == [kind |-> kind, text |-> text]

ClassDecl(decorator, name, props, ctors, methods) ==
    [decorator |-> decorator, name |-> name, props |-> props, ctors |-> ctors,
     methods |-> methods]
FunctionDecl(name, statements) == [name |-> name, statements |-> statements]
InterfaceDecl(name, props) == [name |-> name, props |-> props]

SourceFile(imports, interfaces, classes, functions, rest) ==
    [imports |-> imports, interfaces |-> interfaces, classes |-> classes,
     functions |-> functions, rest |-> rest]

RECURSIVE Join(_, _)
Join(q, sep) ==
    IF q = <<>> THEN ""
    ELSE IF Len(q) = 1 THEN q[1]
    ELSE q[1] \o sep \o Join(Tail(q), sep)

RECURSIVE Concat(_)
Concat(q) == IF q = <<>> THEN "" ELSE q[1] \o Concat(Tail(q))

\* the printed form of one import declaration
ImportText(imp) ==
    LET named == IF imp.namedImports = <<>> THEN ""
                 ELSE "{ " \o Join(imp.namedImports, ", ") \o " }"
        ns == IF imp.namespaceImport = "" THEN ""
              ELSE "* as " \o imp.namespaceImport
        clause == Join(SelectSeq(<<imp.defaultImport, ns, named>>,
                                 LAMBDA x : x # ""), ", ")
    IN  "import " \o clause \o " from " \o imp.quote \o imp.moduleSpecifier
            \o imp.quote \o ";\n"

ParamText(p) ==
    (IF p.scope = "" THEN "" ELSE p.scope \o " ") \o p.name \o ": " \o p.type

PropertyText(p) ==
    (IF p.decorator = "" THEN "" ELSE "@" \o p.decorator \o "() ")
        \o p.name \o ": any;\n"

MethodText(m) == m.name \o "(): void {\n" \o m.stmt \o "\n}\n"

ClassText(c) ==
    (IF c.decorator = "" THEN "" ELSE c.decorator \o "\n")
        \o "class " \o c.name \o " {\n"
        \o Concat([i \in 1..Len(c.props) |-> PropertyText(c.props[i])])
        \o Concat([i \in 1..Len(c.ctors) |->
               "constructor("
               \o Join([j \in 1..Len(c.ctors[i]) |-> ParamText(c.ctors[i][j])], ", ")
               \o ") {\n}\n"])
        \o Concat([i \in 1..Len(c.methods) |-> MethodText(c.methods[i])])
        \o "}\n"

FunctionText(f) ==
    "function " \o f.name \o "(): void {\n"
        \o Concat([i \in 1..Len(f.statements) |-> f.statements[i].text \o "\n"])
        \o "}\n"

InterfaceText(n) ==
    "interface " \o n.name \o " {\n"
        \o Concat([i \in 1..Len(n.props) |-> n.props[i] \o ": any;\n"])
        \o "}\n"

\* sourceFile.getFullText()
getFullText(sf) ==
    Concat([i \in 1..Len(sf.imports) |-> ImportText(sf.imports[i])])
        \o Concat([i \in 1..Len(sf.interfaces) |-> InterfaceText(sf.interfaces[i])])
        \o Concat([i \in 1..Len(sf.classes) |-> ClassText(sf.classes[i])])
        \o Concat([i \in 1..Len(sf.functions) |-> FunctionText(sf.functions[i])])
        \o sf.rest

\* sourceFile.addImportDeclaration(structure): appended after the last import,
\* printed with the manipulation settings' default double quotes
addImportDeclaration(sf, module, def, ns, named) ==
    [sf EXCEPT !.imports = Append(@, ImportDecl(module, def, ns, named, "\""))]

\* classDeclaration.getMethod(name) is defined
hasMethod(cls, name) == \E i \in 1..Len(cls.methods) : cls.methods[i].name = name

\* classes[0].addMethod({name, returnType: 'void', statements: [stmt]})
addMethodToFirstClass(sf, name, stmt) ==
    [sf EXCEPT !.classes[1].methods = Append(@, Method(name, stmt))]

\* sourceFile.addFunction({name, returnType: 'void', statements: [stmt]})
addFunction(sf, name, stmt) ==
    [sf EXCEPT !.functions =
        Append(@, FunctionDecl(name, <<Statement("ExpressionStatement", stmt)>>))]

\* a JavaScript value that is a string or undefined
Str(s) == [def |-> TRUE, s |-> s]
Undefined == [def |-> FALSE, s |-> ""]
\* a JavaScript value that is an array of changes or undefined
Arr(l) == [def |-> TRUE, l |-> l]
UndefinedArr == [def |-> FALSE, l |-> <<>>]

\* one line of standard output: the JSON of a result object, or a console.log text
ResponseLine(success, content, error) ==
    [kind |-> "json", success |-> success, content |-> content, error |-> error,
     text |-> ""]
LogLine(text) ==
    [kind |-> "text", success |-> FALSE, content |-> Undefined, error |-> Undefined,
     text |-> text]

\* what an editor hands back: the tree, and the lines it wrote to stdout
\* (console.log) and to stderr (console.warn)
Edited(sf, out, warn) == [sf |-> sf, out |-> out, warn |-> warn]
Quiet(sf) == Edited(sf, <<>>, <<>>)

(***************************************************************************)
(* applyImportChange                                                       *)
(***************************************************************************)
\* the comparison made against the specifier's quoted text instead of its value
alreadyImportedByText(sf, moduleName) ==
    \E i \in 1..Len(sf.imports) :
        sf.imports[i].quote \o sf.imports[i].moduleSpecifier \o sf.imports[i].quote
            = moduleName

\* existingImports.some(imp => imp.getModuleSpecifierValue() === moduleName)
alreadyImported(sf, moduleName) ==
    \E i \in 1..Len(sf.imports) : sf.imports[i].moduleSpecifier = moduleName

\* existingImports.some(imp => imp.getNamedImports().some(ni => ni.getName() === name))
hasNamedImport(sf, name) ==
    \E i \in 1..Len(sf.imports) :
        \E j \in 1..Len(sf.imports[i].namedImports) :
            sf.imports[i].namedImports[j] = name

applyImportChange(sf, change) ==
    LET fromMatch == FromRegex(change)
        importNamesMatch == ImportNamesRegex(change)
        defaultImportMatch == ImportWordRegex(change)
    IN  IF fromMatch.ok
        THEN IF alreadyImported(sf, fromMatch.cap)
             THEN Quiet(sf)
             ELSE IF importNamesMatch.ok
             THEN Quiet(addImportDeclaration(sf, fromMatch.cap, "", "",
                                             SplitNames(importNamesMatch.cap)))
             ELSE IF defaultImportMatch.ok
             THEN Quiet(addImportDeclaration(sf, fromMatch.cap,
                                             defaultImportMatch.cap, "", <<>>))
             ELSE Quiet(addImportDeclaration(sf, fromMatch.cap, "", "*", <<>>))
        ELSE IF defaultImportMatch.ok /\ ~hasNamedImport(sf, defaultImportMatch.cap)
             THEN Edited(sf, <<>>, <<"Cannot determine module for import">>)
             ELSE Quiet(sf)

(***************************************************************************)
(* applyMethodChange                                                       *)
(***************************************************************************)
\* the collision scan without its loop over the classes
methodExistsAmongFunctions(sf, methodName) ==
    \E i \in 1..Len(sf.functions) : sf.functions[i].name = methodName

\* the name collides with a method of any class or with a top-level function
methodExistsAnywhere(sf, methodName) ==
    \/ \E i \in 1..Len(sf.classes) : hasMethod(sf.classes[i], methodName)
    \/ \E i \in 1..Len(sf.functions) : sf.functions[i].name = methodName

\* the method editor that never looks for a class
applyMethodChangeAsFunction(sf, change) ==
    LET methodMatch == MethodRegex(change)
    IN  IF ~methodMatch.ok THEN Quiet(sf)
        ELSE IF methodExistsAnywhere(sf, methodMatch.cap) THEN Quiet(sf)
        ELSE Quiet(addFunction(sf, methodMatch.cap, "// TODO: Implement function"))

applyMethodChange(sf, change) ==
    LET methodMatch == MethodRegex(change)
    IN  IF ~methodMatch.ok THEN Quiet(sf)
        ELSE IF methodExistsAnywhere(sf, methodMatch.cap) THEN Quiet(sf)
        ELSE IF Len(sf.classes) > 0
        THEN Quiet(addMethodToFirstClass(sf, methodMatch.cap,
                                         "// TODO: Implement method"))
        ELSE Quiet(addFunction(sf, methodMatch.cap, "// TODO: Implement function"))

(***************************************************************************)
(* path.extname and detectFrameworkFromContent                             *)
(***************************************************************************)
\* index of the last occurrence of character c in s, 0 when none
RECURSIVE LastIndexOf(_, _)
LastIndexOf(s, c) ==
    IF s = "" THEN 0
    ELSE IF Char(s, Len(s)) = c THEN Len(s)
    ELSE LastIndexOf(SubSeq(s, 1, Len(s) - 1), c)

\* path.extname (posix): from the last dot of the last path segment, empty
\* when there is none or when it is the segment's first character
extname(p) ==
    LET base == SubSeq(p, LastIndexOf(p, "/") + 1, Len(p))
        dot == LastIndexOf(base, ".")
    IN  IF dot <= 1 \/ base = ".." THEN "" ELSE SubSeq(base, dot, Len(base))

NoFramework == "null"

\* the decision list with the React markers tested before the Angular ones
detectFrameworkReactFirst(content, filePath) ==
    IF \/ includes(content, "import React")
       \/ includes(content, "from 'react'")
       \/ includes(content, "from \"react\"")
       \/ includes(content, "useState")
    THEN "react"
    ELSE IF includes(content, "@Component") \/ includes(content, "@angular/core")
    THEN "angular"
    ELSE NoFramework

detectFrameworkFromContent(content, filePath) ==
    LET ext == toLowerCase(extname(filePath))
    IN  IF \/ includes(content, "@Component")
           \/ includes(content, "@NgModule")
           \/ includes(content, "@angular/core")
           \/ includes(content, "@angular/common")
           \/ includes(content, "@angular/router")
        THEN "angular"
        ELSE IF \/ includes(content, "import React")
                \/ includes(content, "from 'react'")
                \/ includes(content, "from \"react\"")
                \/ includes(content, "useState")
                \/ includes(content, "useEffect")
                \/ includes(content, "useNavigate")
                \/ (ext = ".tsx" /\ includes(content, "return ("))
        THEN "react"
        ELSE IF \/ ext = ".vue"
                \/ includes(content, "defineComponent")
                \/ includes(content, "from 'vue'")
                \/ includes(content, "from \"vue\"")
                \/ includes(content, "<template>")
        THEN "vue"
        ELSE IF \/ includes(content, "next/router")
                \/ includes(content, "next/link")
                \/ includes(content, "next/navigation")
                \/ (includes(content, "useRouter") /\ includes(content, "next"))
        THEN "nextjs"
        ELSE IF ext = ".tsx" THEN "react"
        ELSE NoFramework

(***************************************************************************)
(* Button generators                                                       *)
(***************************************************************************)
generateReactButton(buttonText, onClickHandler, sf) ==
    IF alreadyImported(sf, "react") \/ alreadyImported(sf, "react-dom")
    THEN sf
    ELSE addImportDeclaration(sf, "react", "React", "", <<>>)

\* clickHandler || 'onButtonClick'
HandlerName(clickHandler) ==
    IF clickHandler = "" THEN "onButtonClick" ELSE clickHandler

generateAngularButton(buttonText, clickHandler, sf) ==
    IF Len(sf.classes) > 0 /\ ~hasMethod(sf.classes[1], HandlerName(clickHandler))
    THEN addMethodToFirstClass(sf, HandlerName(clickHandler),
                               "// Handle " \o buttonText \o " button click")
    ELSE sf

generateVueButton(buttonText, clickHandler, sf) ==
    LET methodExists ==
            \E i \in 1..Len(sf.functions) :
                sf.functions[i].name = HandlerName(clickHandler)
    IN  IF ~methodExists /\ Len(sf.classes) > 0
        THEN addMethodToFirstClass(sf, HandlerName(clickHandler),
                                   "// Handle " \o buttonText \o " button click")
        ELSE sf

(***************************************************************************)
(* generateBackButton: the tree, and the lines of the result's "code"      *)
(* (empty when the result has no code property)                            *)
(***************************************************************************)
Generated(sf, code) == [sf |-> sf, code |-> code]

\* parameter.getType().getText(): the checker's type of the parameter.  The
\* project is in memory with no packages installed, so a type name that no
\* declaration of the file resolves has the error type, printed "any".
paramTypeText(sf, p) ==
    IF \/ \E i \in 1..Len(sf.classes) : sf.classes[i].name = p.type
       \/ \E i \in 1..Len(sf.interfaces) : sf.interfaces[i].name = p.type
    THEN p.type
    ELSE "any"

\* the react generator that never looks for a Next.js marker
generateBackButtonReactClientSide(sf) ==
    IF alreadyImported(sf, "react-router-dom") \/ alreadyImported(sf, "next/navigation")
    THEN Generated(sf, <<"const handleBack = () => window.history.back();">>)
    ELSE Generated(addImportDeclaration(sf, "react-router-dom", "", "",
                                        <<"useNavigate">>),
                   <<"const navigate = useNavigate();",
                     "const handleBack = () => navigate(-1);">>)

generateBackButtonReact(sf) ==
    LET hasRouter == \/ alreadyImported(sf, "react-router-dom")
                     \/ alreadyImported(sf, "next/navigation")
        content == getFullText(sf)
    IN  IF hasRouter
        THEN Generated(sf, <<"const handleBack = () => window.history.back();">>)
        ELSE IF includes(content, "next/navigation") \/ includes(content, "next/router")
        THEN Generated(addImportDeclaration(sf, "next/navigation", "", "",
                                            <<"useRouter">>),
                       <<"const router = useRouter();",
                         "const handleBack = () => router.back();">>)
        ELSE Generated(addImportDeclaration(sf, "react-router-dom", "", "",
                                            <<"useNavigate">>),
                       <<"const navigate = useNavigate();",
                         "const handleBack = () => navigate(-1);">>)

\* the angular generator without its look for an existing goBack method
generateBackButtonAngularUnguarded(sf) ==
    LET sf1 == IF alreadyImported(sf, "@angular/router") THEN sf
               ELSE addImportDeclaration(sf, "@angular/router", "", "", <<"Router">>)
    IN  IF Len(sf1.classes) > 0
        THEN Generated(addMethodToFirstClass(sf1, "goBack",
                                             "this.router.navigate([\"/\"]);"),
                       <<>>)
        ELSE Generated(sf1, <<>>)

generateBackButtonAngular(sf) ==
    LET sf1 == IF alreadyImported(sf, "@angular/router") THEN sf
               ELSE addImportDeclaration(sf, "@angular/router", "", "", <<"Router">>)
        cls == sf1.classes[1]
        hasRouterParam ==
            /\ Len(cls.ctors) > 0
            /\ \E j \in 1..Len(cls.ctors[1]) :
                   includes(paramTypeText(sf1, cls.ctors[1][j]), "Router")
        router == Param("router", "Router", "private")
        sf2 == IF ~hasRouterParam /\ Len(cls.ctors) > 0
               THEN [sf1 EXCEPT !.classes[1].ctors[1] = Append(@, router)]
               ELSE IF Len(cls.ctors) = 0
               THEN [sf1 EXCEPT !.classes[1].ctors = <<<<router>>>>]
               ELSE sf1
    IN  IF Len(sf1.classes) > 0 /\ ~hasMethod(cls, "goBack")
        THEN Generated(addMethodToFirstClass(sf2, "goBack",
                           "this.router.navigate([\"/\"]); // Or use this.location.back() if Location service is preferred"),
                       <<>>)
        ELSE Generated(sf1, <<>>)

generateBackButtonVue(sf) ==
    IF alreadyImported(sf, "vue-router")
    THEN Generated(sf, <<"const router = useRouter();",
                         "const goBack = () => router.back();">>)
    ELSE Generated(addImportDeclaration(sf, "vue-router", "", "", <<"useRouter">>),
                   <<"const router = useRouter();",
                     "const goBack = () => router.back();">>)

generateBackButton(framework, sf) ==
    IF framework = "react" THEN generateBackButtonReact(sf)
    ELSE IF framework = "angular" THEN generateBackButtonAngular(sf)
    ELSE IF framework = "vue" THEN generateBackButtonVue(sf)
    ELSE Generated(sf, <<"const goBack = () => window.history.back();">>)

(***************************************************************************)
(* applyModification                                                       *)
(***************************************************************************)
\* func.getName() && func.getName()[0] === func.getName()[0].toUpperCase()
isComponentName(name) == name # "" /\ Char(name, 1) = UpperChar(Char(name, 1))

\* index of the first top-level function passing the component test, 0 when none
firstComponent(sf) ==
    LET hits == {i \in 1..Len(sf.functions) : isComponentName(sf.functions[i].name)}
    IN  IF hits = {} THEN 0 ELSE SetMin(hits)

\* index of the first ReturnStatement among the statements, 0 when none
\* (the script's returnIndex plus one)
firstReturn(statements) ==
    LET hits == {i \in 1..Len(statements) : statements[i].kind = "ReturnStatement"}
    IN  IF hits = {} THEN 0 ELSE SetMin(hits)

\* body.insertStatements(index, text) with a 0-based index
insertStatements(statements, index, stmts) ==
    SubSeq(statements, 1, index) \o stmts
        \o SubSeq(statements, index + 1, Len(statements))

VariableStatements(lines) ==
    [i \in 1..Len(lines) |-> Statement("VariableStatement", lines[i])]

\* the back-button branch that inserts nothing into a body that already
\* declares handleBack
applyBackButtonOnce(sf, framework) ==
    LET backButton == generateBackButton(framework, sf)
        t == firstComponent(backButton.sf)
        body == backButton.sf.functions[t].statements
        r == IF t = 0 THEN 0 ELSE firstReturn(body)
        declared == \E i \in 1..Len(body) : includes(body[i].text, "const handleBack = ")
        sf1 == IF framework = "react" /\ t > 0 /\ backButton.code # <<>> /\ r - 1 > 0
                  /\ ~declared
               THEN [backButton.sf EXCEPT !.functions[t].statements =
                        insertStatements(@, r - 1, VariableStatements(backButton.code))]
               ELSE backButton.sf
    IN  Edited(sf1,
               <<LogLine("Generated back button for "
                   \o (IF framework = NoFramework THEN "unknown" ELSE framework)
                   \o " framework")>>,
               <<>>)

\* lines 569-614: the back-button branch
applyBackButton(sf, framework) ==
    LET backButton == generateBackButton(framework, sf)
        t == firstComponent(backButton.sf)
        r == IF t = 0 THEN 0 ELSE firstReturn(backButton.sf.functions[t].statements)
        \* returnIndex > 0 with returnIndex = r - 1
        sf1 == IF framework = "react" /\ t > 0 /\ backButton.code # <<>> /\ r - 1 > 0
               THEN [backButton.sf EXCEPT !.functions[t].statements =
                        insertStatements(@, r - 1, VariableStatements(backButton.code))]
               ELSE backButton.sf
    IN  Edited(sf1,
               <<LogLine("Generated back button for "
                   \o (IF framework = NoFramework THEN "unknown" ELSE framework)
                   \o " framework")>>,
               <<>>)

\* lines 616-627: the regular button branch
applyButton(sf, change, framework) ==
    LET buttonTextMatch == ButtonTextRegex(change)
        buttonText == IF buttonTextMatch.ok THEN trim(buttonTextMatch.cap) ELSE "Button"
        onClickMatch == OnClickRegex(change)
        onClickHandler == IF onClickMatch.ok THEN trim(onClickMatch.cap)
                          ELSE "handleClick"
    IN  IF framework = "react"
        THEN Quiet(generateReactButton(buttonText, onClickHandler, sf))
        ELSE IF framework = "angular"
        THEN Quiet(generateAngularButton(buttonText, onClickHandler, sf))
        ELSE IF framework = "vue"
        THEN Quiet(generateVueButton(buttonText, onClickHandler, sf))
        ELSE Quiet(sf)

\* index of the first interface whose name includes 'Props' or 'props', 0 when none
propsInterface(sf) ==
    LET hits == {i \in 1..Len(sf.interfaces) :
                    \/ includes(sf.interfaces[i].name, "Props")
                    \/ includes(sf.interfaces[i].name, "props")}
    IN  IF hits = {} THEN 0 ELSE SetMin(hits)

\* lines 634-683: add a property (the property name was extracted)
applyProp(sf, propName, framework) ==
    IF framework = "react"
    THEN IF propsInterface(sf) > 0
         THEN [sf EXCEPT !.interfaces[propsInterface(sf)].props = Append(@, propName)]
         ELSE sf
    ELSE IF framework = "angular" /\ Len(sf.classes) > 0
    THEN LET sf1 == IF hasNamedImport(sf, "Input") THEN sf
                    ELSE addImportDeclaration(sf, "@angular/core", "", "", <<"Input">>)
         IN  [sf1 EXCEPT !.classes[1].props = Append(@, Property(propName, "Input"))]
    ELSE sf

\* imports.some(imp => specifier === 'react' && namedImports has 'useState')
hasUseState(sf) ==
    \E i \in 1..Len(sf.imports) :
        /\ sf.imports[i].moduleSpecifier = "react"
        /\ \E j \in 1..Len(sf.imports[i].namedImports) :
               sf.imports[i].namedImports[j] = "useState"

\* useState appended to the first 'react' import without looking for it there
ensureUseStateAppended(sf) ==
    IF alreadyImported(sf, "react")
    THEN LET reactImport ==
                 SetMin({i \in 1..Len(sf.imports) :
                            sf.imports[i].moduleSpecifier = "react"})
         IN  [sf EXCEPT !.imports[reactImport].namedImports = Append(@, "useState")]
    ELSE addImportDeclaration(sf, "react", "", "", <<"useState">>)

\* lines 693-715: make the react import list useState
ensureUseState(sf) ==
    IF hasUseState(sf) THEN sf
    ELSE IF alreadyImported(sf, "react")
    THEN LET reactImport ==
                 SetMin({i \in 1..Len(sf.imports) :
                            sf.imports[i].moduleSpecifier = "react"})
         IN  [sf EXCEPT !.imports[reactImport].namedImports = Append(@, "useState")]
    ELSE addImportDeclaration(sf, "react", "", "", <<"useState">>)

\* set${stateName.charAt(0).toUpperCase() + stateName.slice(1)}
setterName(stateName) ==
    "set" \o UpperChar(Char(stateName, 1)) \o SubSeq(stateName, 2, Len(stateName))

stateStatement(stateName) ==
    Statement("VariableStatement",
              "const [" \o stateName \o ", " \o setterName(stateName)
                  \o "] = useState();")

\* lines 734-745: the navigation branch
applyNavigation(sf, framework) ==
    IF framework \in {"react", "angular", "vue"}
    THEN Quiet(generateBackButton(framework, sf).sf)
    ELSE Quiet(sf)

\* lines 733-748: what follows the state block when it did not return
navigationOrWarn(sf, changeLower, framework) ==
    IF \/ includes(changeLower, "add navigation")
       \/ includes(changeLower, "add route")
       \/ includes(changeLower, "add routing")
    THEN applyNavigation(sf, framework)
    ELSE Edited(sf, <<>>, <<"Modification pattern not fully handled">>)

\* the state block that puts the declaration at the end of the body
stateOrLaterAtEnd(sf, change, changeLower, framework) ==
    LET stateMatch == StateRegex(change)
        sf1 == ensureUseState(sf)
        t == firstComponent(sf1)
    IN  IF /\ includes(changeLower, "add state") \/ includes(changeLower, "use state")
           /\ stateMatch.ok
           /\ framework = "react"
        THEN IF t > 0
             THEN Quiet([sf1 EXCEPT !.functions[t].statements =
                            Append(@, stateStatement(stateMatch.cap))])
             ELSE navigationOrWarn(sf1, changeLower, framework)
        ELSE navigationOrWarn(sf, changeLower, framework)

\* lines 687-748: the state block and what follows it
stateOrLater(sf, change, changeLower, framework) ==
    LET stateMatch == StateRegex(change)
        sf1 == ensureUseState(sf)
        t == firstComponent(sf1)
    IN  IF /\ includes(changeLower, "add state") \/ includes(changeLower, "use state")
           /\ stateMatch.ok
           /\ framework = "react"
        THEN IF t > 0
             THEN Quiet([sf1 EXCEPT !.functions[t].statements =
                            insertStatements(@, 0, <<stateStatement(stateMatch.cap)>>)])
             ELSE navigationOrWarn(sf1, changeLower, framework)
        ELSE navigationOrWarn(sf, changeLower, framework)

applyModification(sf, change, filePath) ==
    LET content == getFullText(sf)
        framework == detectFrameworkFromContent(content, filePath)
        changeLower == toLowerCase(change)
        propMatch == PropRegex(change)
    IN  IF includes(changeLower, "add button") \/ includes(changeLower, "add back button")
        THEN IF includes(changeLower, "back button") \/ includes(changeLower, "back")
             THEN applyBackButton(sf, framework)
             ELSE applyButton(sf, change, framework)
        ELSE IF /\ includes(changeLower, "add prop") \/ includes(changeLower, "add property")
                /\ propMatch.ok
        THEN Quiet(applyProp(sf, propMatch.cap, framework))
        ELSE stateOrLater(sf, change, changeLower, framework)

(***************************************************************************)
(* The input stream.  The bytes of stdin are a sequence of JSON tokens; a  *)
(* member token carries its value.  JSON.parse accepts the documents of    *)
(* the grammar below and throws a SyntaxError on anything else.            *)
(***************************************************************************)
Tok(k, s, l) == [k |-> k, s |-> s, l |-> l]
LBrace == Tok("{", "", <<>>)
RBrace == Tok("}", "", <<>>)
NullTok == Tok("null", "", <<>>)
NumberTok == Tok("number", "", <<>>)
JunkTok == Tok("junk", "", <<>>)
ContentTok(text) == Tok("content", text, <<>>)
ChangesTok(list) == Tok("changes", "", list)
FilePathTok(path) == Tok("filePath", path, <<>>)
MemberKinds == {"content", "changes", "filePath"}

\* an element of the changes array: a JSON string, or a JSON number
StringChange(s) == [t |-> "string", s |-> s]
NumberChange == [t |-> "number", s |-> "5"]

IsObjectText(data) ==
    /\ Len(data) >= 2
    /\ data[1] = LBrace
    /\ data[Len(data)] = RBrace
    /\ \A i \in 2..(Len(data) - 1) : data[i].k \in MemberKinds

\* the value of member k of the object text, by the last member of that name
MemberOf(data, k) ==
    LET hits == {i \in 2..(Len(data) - 1) : data[i].k = k}
    IN  IF hits = {} THEN Tok("undefined", "", <<>>)
        ELSE data[CHOOSE i \in hits : \A j \in hits : j <= i]

\* JSON.parse(inputData): [ok, kind, content, changes, filePath, error]
JSONParse(data) ==
    LET value(kind, c, ch, fp) ==
            [ok |-> TRUE, kind |-> kind, content |-> c, changes |-> ch,
             filePath |-> fp, error |-> ""]
        member(k) == MemberOf(data, k)
    IN  IF data = <<NullTok>>
        THEN value("null", Undefined, UndefinedArr, Undefined)
        ELSE IF data = <<NumberTok>>
        THEN value("number", Undefined, UndefinedArr, Undefined)
        ELSE IF IsObjectText(data)
        THEN value("object",
                   IF member("content").k = "content"
                       THEN Str(member("content").s) ELSE Undefined,
                   IF member("changes").k = "changes"
                       THEN Arr(member("changes").l) ELSE UndefinedArr,
                   IF member("filePath").k = "filePath"
                       THEN Str(member("filePath").s) ELSE Undefined)
        ELSE [ok |-> FALSE, kind |-> "", content |-> Undefined,
              changes |-> UndefinedArr, filePath |-> Undefined,
              error |-> IF data = <<>> \/ data[Len(data)] = LBrace
                            \/ data[Len(data)].k \in MemberKinds
                        THEN "Unexpected end of JSON input"
                        ELSE "Unexpected token in JSON"]

(***************************************************************************)
(* Bounds and the inputs explored                                          *)
(***************************************************************************)
\* longest changes list of a request
MaxChanges == 3
\* most data events the input arrives in
MaxChunks == 2

NoStatements == <<>>
EmptyFile == SourceFile(<<>>, <<>>, <<>>, <<>>, "")

\* an Angular component class, nothing imported yet
AngularSource ==
    SourceFile(<<>>, <<>>,
               <<ClassDecl("@Component({})", "A", <<>>, <<>>, <<>>)>>, <<>>, "")

\* a React component with two import declarations of 'react'
ReactSource ==
    SourceFile(<<ImportDecl("react", "React", "", <<>>, "'"),
                 ImportDecl("react", "", "", <<"useEffect">>, "'")>>,
               <<InterfaceDecl("ButtonProps", <<>>)>>,
               <<>>,
               <<FunctionDecl("App", <<Statement("VariableStatement",
                                                 "const [x, setX] = React.useState(1);"),
                                       Statement("ReturnStatement", "return null;")>>)>>,
               "")

\* a module with a named import and two classes, the second with a method bar
LibrarySource ==
    SourceFile(<<ImportDecl("Y", "", "", <<"a">>, "'")>>, <<>>,
               <<ClassDecl("", "A", <<>>, <<>>, <<>>),
                 ClassDecl("", "B", <<>>, <<>>, <<Method("bar", "return;")>>)>>,
               <<>>, "")

\* a class next to a top-level function foo
MixedSource ==
    SourceFile(<<>>, <<>>, <<ClassDecl("", "A", <<>>, <<>>, <<>>)>>,
               <<FunctionDecl("foo", NoStatements)>>, "")

\* an Angular component whose constructor is handed the router
RoutedSource ==
    SourceFile(<<ImportDecl("@angular/core", "", "", <<"Component">>, "'"),
                 ImportDecl("@angular/router", "", "", <<"Router">>, "'")>>,
               <<>>,
               <<ClassDecl("@Component({})", "A", <<>>,
                           <<<<Param("router", "Router", "private")>>>>, <<>>)>>,
               <<>>, "")

\* a module of hooks: 'react' imported, no component function, no Props interface
HooksSource ==
    SourceFile(<<ImportDecl("react", "", "", <<"useEffect">>, "'")>>, <<>>, <<>>,
               <<FunctionDecl("useThing",
                              <<Statement("ReturnStatement", "return 1;")>>)>>,
               "")

\* a React component whose text also holds an Angular marker
HybridSource ==
    SourceFile(<<ImportDecl("react", "", "", <<"useState">>, "'")>>, <<>>, <<>>,
               <<FunctionDecl("App",
                              <<Statement("VariableStatement",
                                          "const [n, setN] = useState(0);"),
                                Statement("ReturnStatement", "return null;")>>)>>,
               "// replaces the @Component of the old app\n")

\* a Next.js page whose text holds no marker of another framework
NextSource ==
    SourceFile(<<ImportDecl("next/link", "Link", "", <<>>, "'")>>, <<>>, <<>>,
               <<FunctionDecl("Page",
                              <<Statement("ReturnStatement", "return null;")>>)>>,
               "")

\* a Vue component class whose text also holds a Next.js marker
VueSource ==
    SourceFile(<<ImportDecl("vue", "", "", <<"defineComponent">>, "'")>>, <<>>,
               <<ClassDecl("", "V", <<>>, <<>>, <<>>)>>, <<>>,
               "// next/router\n")

\* a React component whose body begins with its return statement
ReturnFirstSource ==
    SourceFile(<<ImportDecl("react", "React", "", <<>>, "'")>>, <<>>, <<>>,
               <<FunctionDecl("App",
                              <<Statement("ReturnStatement", "return null;")>>)>>,
               "")

\* a React page that takes its router from 'next/router'
NextAppSource ==
    SourceFile(<<ImportDecl("react", "React", "", <<>>, "'"),
                 ImportDecl("next/router", "", "", <<"useRouter">>, "'")>>,
               <<>>, <<>>,
               <<FunctionDecl("Page",
                              <<Statement("VariableStatement", "const r = 1;"),
                                Statement("ReturnStatement", "return null;")>>)>>,
               "")

\* a React component declared after a helper function _render, with an
\* interface BUTTONPROPS
HelperSource ==
    SourceFile(<<ImportDecl("react", "React", "", <<>>, "'")>>,
               <<InterfaceDecl("BUTTONPROPS", <<>>)>>,
               <<>>,
               <<FunctionDecl("_render",
                              <<Statement("VariableStatement", "const a = 1;"),
                                Statement("ReturnStatement", "return a;")>>),
                 FunctionDecl("App",
                              <<Statement("VariableStatement", "const b = 2;"),
                                Statement("ReturnStatement", "return null;")>>)>>,
               "")

Sources == {EmptyFile, AngularSource, ReactSource, LibrarySource, MixedSource,
            RoutedSource, HooksSource, HybridSource, NextSource, VueSource,
            ReturnFirstSource, NextAppSource, HelperSource}

\* project.createSourceFile(filePath, content): the tree whose text is content
createSourceFile(content) == CHOOSE sf \in Sources : getFullText(sf) = content

S(text) == StringChange(text)

\* a source, its path, and the change descriptions tried against it
Scenario(sf, path, descs) == [sf |-> sf, path |-> path, descs |-> descs]

Scenarios ==
    { Scenario(AngularSource, "a.ts",
               {S("add import { Component } from '@angular/core'"),
                S("add prop title"), S("add back button"), S("add method foo"),
                NumberChange}),
      Scenario(ReactSource, "App.tsx",
               {S("add state count"), S("add back button"), S("add button: Save"),
                S("Add import { useState } from \"react\""), S("add route")}),
      Scenario(LibrarySource, "lib/m.js",
               {S("add import { a, b } from 'Y'"), S("add import X from 'Z'"),
                S("import X"), S("add method foo"), S("add method bar"),
                S("rename x")}),
      Scenario(MixedSource, "x.jsx",
               {S("add method foo"), S("add import { Input } from '@angular/core'"),
                S("add prop title"), S("add method importData"),
                S("add function changeName"), NumberChange}),
      Scenario(RoutedSource, "r.ts",
               {S("add back button"), S("add navigation"), S("add back link"),
                S("add button: Go")}),
      Scenario(ReturnFirstSource, "first.jsx",
               {S("add back button"), S("add state a"), S("add state b")}),
      Scenario(NextAppSource, "page.tsx", {S("add back button"), S("add route")}),
      Scenario(HelperSource, "helper.tsx",
               {S("add state count"), S("add back button"), S("add prop title")}),
      Scenario(HooksSource, "useThing.tsx",
               {S("add state count"), S("add prop title"), S("add back button")}),
      Scenario(HybridSource, "h.jsx", {S("add state count"), S("add back button")}),
      Scenario(NextSource, "page.js", {S("add back button"), S("add state n")}),
      Scenario(VueSource, "v.ts", {S("add back button"), S("add button: Go")}),
      Scenario(EmptyFile, "e.TS",
               {S("add method foo"), S("create function foo"),
                S("add import X from 'Y'"), S("add back button")}),
      Scenario(EmptyFile, "e.tsx", {S("add back button")}) }

\* every list of at most n elements of set D
Lists(D, n) == UNION {[1..k -> D] : k \in 0..n}

RequestText(content, list, path) ==
    <<LBrace, ContentTok(content), ChangesTok(list), FilePathTok(path), RBrace>>

\* paths whose extension the script refuses, and two it accepts
OddPaths == {"a.py", "Makefile", ".ts", "v1.2/readme", "b.Vue", "A.TSX", "a.b.js"}

AngularText == getFullText(AngularSource)

\* what arrives on stdin, whether require('ts-morph') finds the package, and
\* the most chunks the text arrives in
Input(wire, installed, chunks) ==
    [wire |-> wire, installed |-> installed, chunks |-> chunks]

\* the requests of the scenarios, each arriving in one chunk
ScenarioInputs ==
    UNION {{Input(RequestText(getFullText(sc.sf), list, sc.path), TRUE, 1) :
               list \in Lists(sc.descs, MaxChanges)} : sc \in Scenarios}

\* one-change requests under every path, with and without ts-morph, in chunks
PathInputs ==
    {Input(RequestText(AngularText, list, path), inst, MaxChunks) :
        list \in Lists({S("add method foo")}, 1), path \in OddPaths,
        inst \in BOOLEAN}

\* inputs that are no request
OtherInputs ==
    {Input(wire, inst, MaxChunks) :
        wire \in {<<>>, <<JunkTok>>, <<LBrace, ContentTok(AngularText)>>,
                  <<NullTok>>, <<NumberTok>>, <<NullTok, NullTok>>,
                  <<LBrace, RBrace>>,
                  <<LBrace, FilePathTok("a.ts"), ContentTok(AngularText), RBrace>>,
                  <<LBrace, ChangesTok(<<>>), RBrace>>},
        inst \in BOOLEAN}

Inputs == ScenarioInputs \cup PathInputs \cup OtherInputs

\* the text cut into chunks after the positions of cuts
RECURSIVE Cut(_, _, _)
Cut(wire, start, cuts) ==
    IF cuts = {} THEN <<SubSeq(wire, start, Len(wire))>>
    ELSE LET c == SetMin(cuts)
         IN  <<SubSeq(wire, start, c)>> \o Cut(wire, c + 1, cuts \ {c})

\* the ways the text arrives: in at most n non-empty chunks
Splits(wire, n) ==
    IF wire = <<>> THEN {<<>>}
    ELSE {Cut(wire, 1, cuts) :
            cuts \in {c \in SUBSET (1..(Len(wire) - 1)) : Cardinality(c) < n}}

(***************************************************************************)
(* The process                                                             *)
(***************************************************************************)
VARIABLES
    stdin,            \* the chunks not yet delivered
    inputData,        \* line 24
    installed,        \* whether ts-morph can be loaded
    pc,               \* "reading", "editing" (inside the loop of applyEdits), "exited"
    content,          \* applyEdits' arguments
    changes,
    filePath,
    sourceFile,       \* the tree of line 93
    next,             \* how many changes the loop has taken
    stdout,           \* the lines written by console.log
    stderr,           \* the lines written by console.warn
    exitCode,         \* <<>> while the process runs, then <<its exit status>>
    calls             \* how many times applyEdits was called

vars == <<stdin, inputData, installed, pc, content, changes, filePath, sourceFile,
          next, stdout, stderr, exitCode, calls>>

Init ==
    \E in \in Inputs :
        /\ stdin \in Splits(in.wire, in.chunks)
        /\ installed = in.installed
        /\ inputData = <<>>
        /\ pc = "reading"
        /\ content = Undefined
        /\ changes = UndefinedArr
        /\ filePath = Undefined
        /\ sourceFile = EmptyFile
        /\ next = 0
        /\ stdout = <<>>
        /\ stderr = <<>>
        /\ exitCode = <<>>
        /\ calls = 0

\* a 'data' handler that keeps only the chunk it was handed
OnDataKeepsChunk ==
    /\ pc = "reading"
    /\ stdin # <<>>
    /\ inputData' = Head(stdin)
    /\ stdin' = Tail(stdin)
    /\ UNCHANGED <<installed, pc, content, changes, filePath, sourceFile, next,
                   stdout, stderr, exitCode, calls>>

\* process.stdin.on('data')
OnData ==
    /\ pc = "reading"
    /\ stdin # <<>>
    /\ inputData' = inputData \o Head(stdin)
    /\ stdin' = Tail(stdin)
    /\ UNCHANGED <<installed, pc, content, changes, filePath, sourceFile, next,
                   stdout, stderr, exitCode, calls>>

AtEnd == pc = "reading" /\ stdin = <<>>
input == JSONParse(inputData)

\* the process ends with one more line on stdout
Exit(line, code) ==
    /\ stdout' = Append(stdout, line)
    /\ exitCode' = <<code>>
    /\ pc' = "exited"

\* the catch block of the 'end' handler without its process.exit(1)
CatchAndReturn(message) == Exit(ResponseLine(FALSE, Str(""), Str(message)), 0)

\* lines 36-43: the catch block of the 'end' handler
Catch(message) == Exit(ResponseLine(FALSE, Str(""), Str(message)), 1)

\* a result object returned by applyEdits, printed by line 35
Return(result) == Exit(result, 0)

\* applyEdits is entered with the members of the parsed input
Call ==
    /\ content' = input.content
    /\ changes' = input.changes
    /\ filePath' = input.filePath
    /\ calls' = calls + 1

\* 'end': JSON.parse throws, and the catch block echoes the input and returns
OnEndSyntaxErrorEchoed ==
    /\ AtEnd
    /\ ~input.ok
    /\ Exit(ResponseLine(FALSE, Str("input"), Str(input.error)), 0)
    /\ UNCHANGED <<stdin, inputData, installed, content, changes, filePath,
                   sourceFile, next, stderr, calls>>

\* 'end': JSON.parse throws
OnEndSyntaxError ==
    /\ AtEnd
    /\ ~input.ok
    /\ Catch(input.error)
    /\ UNCHANGED <<stdin, inputData, installed, content, changes, filePath,
                   sourceFile, next, stderr, calls>>

\* 'end': the input is null, and reading input.content throws a TypeError
OnEndNullInput ==
    /\ AtEnd
    /\ input.ok /\ input.kind = "null"
    /\ Catch("Cannot read properties of null (reading 'content')")
    /\ UNCHANGED <<stdin, inputData, installed, content, changes, filePath,
                   sourceFile, next, stderr, calls>>

Callable == AtEnd /\ input.ok /\ input.kind # "null"

\* the missing package treated like unreadable input: empty content, exit 1
ApplyEditsNotAvailableFatal ==
    /\ Callable
    /\ ~installed
    /\ Call
    /\ Catch("ts-morph not available. Install with: npm install ts-morph")
    /\ UNCHANGED <<stdin, inputData, installed, sourceFile, next, stderr>>

\* lines 55-72: neither lookup finds ts-morph
ApplyEditsNotAvailable ==
    /\ Callable
    /\ ~installed
    /\ Call
    /\ Return(ResponseLine(FALSE, input.content,
          Str("ts-morph not available. Install with: npm install ts-morph (or install in py-processor project root)")))
    /\ UNCHANGED <<stdin, inputData, installed, sourceFile, next, stderr>>

\* the extension test with '.vue' let through
isSupportedOrVue(ext) == ext \in {".ts", ".tsx", ".js", ".jsx", ".vue"}

isSupported(ext) == ext \in {".ts", ".tsx", ".js", ".jsx"}

\* line 75 throws on a filePath that is no string, line 98 on changes that
\* cannot be iterated: both land in the catch of line 126
ApplyEditsThrows ==
    /\ Callable
    /\ installed
    /\ \/ ~input.filePath.def
       \/ /\ isSupported(toLowerCase(extname(input.filePath.s)))
          /\ ~input.changes.def
    /\ Call
    /\ Return(ResponseLine(FALSE, input.content,
          Str(IF ~input.filePath.def
              THEN "The \"path\" argument must be of type string. Received undefined"
              ELSE "changes is not iterable")))
    /\ UNCHANGED <<stdin, inputData, installed, sourceFile, next, stderr>>

\* lines 79-85
ApplyEditsUnsupported ==
    /\ Callable
    /\ installed
    /\ input.filePath.def
    /\ ~isSupported(toLowerCase(extname(input.filePath.s)))
    /\ Call
    /\ Return(ResponseLine(FALSE, input.content,
          Str("Unsupported file type: " \o toLowerCase(extname(input.filePath.s)))))
    /\ UNCHANGED <<stdin, inputData, installed, sourceFile, next, stderr>>

\* lines 87-98: the source file is created and the loop is entered
ApplyEditsBegin ==
    /\ Callable
    /\ installed
    /\ input.filePath.def
    /\ isSupported(toLowerCase(extname(input.filePath.s)))
    /\ input.changes.def
    /\ Call
    /\ sourceFile' = createSourceFile(input.content.s)
    /\ pc' = "editing"
    /\ UNCHANGED <<stdin, inputData, installed, next, stdout, stderr, exitCode>>

\* the loop is at a change
AtChange == pc = "editing" /\ next < Len(changes.l)
change == changes.l[next + 1]
changeLower == toLowerCase(change.s)

\* the import rule asking for the words "add import"
isImportAddOnly(lower) == includes(lower, "add import")

isImport(lower) == includes(lower, "add import") \/ includes(lower, "import")
isMethod(lower) == includes(lower, "add method") \/ includes(lower, "add function")
isModification(lower) ==
    \/ includes(lower, "modify") \/ includes(lower, "change")
    \/ includes(lower, "add button") \/ includes(lower, "add back")
    \/ includes(lower, "add prop") \/ includes(lower, "add state")
    \/ includes(lower, "add navigation") \/ includes(lower, "add route")

\* an editor ran on the change: its tree and its output are taken over
Applied(edit) ==
    /\ sourceFile' = edit.sf
    /\ stdout' = stdout \o edit.out
    /\ stderr' = stderr \o edit.warn
    /\ next' = next + 1
    /\ UNCHANGED <<stdin, inputData, installed, pc, content, changes, filePath,
                   exitCode, calls>>

\* the catch of line 126 printing the tree as it stands
ChangeThrowsPartial ==
    /\ AtChange
    /\ change.t # "string"
    /\ Return(ResponseLine(FALSE, Str(getFullText(sourceFile)),
                           Str("change.toLowerCase is not a function")))
    /\ UNCHANGED <<stdin, inputData, installed, content, changes, filePath,
                   sourceFile, next, stderr, calls>>

\* line 99 on a change that is no string: change.toLowerCase is not a function
ChangeThrows ==
    /\ AtChange
    /\ change.t # "string"
    /\ Return(ResponseLine(FALSE, content, Str("change.toLowerCase is not a function")))
    /\ UNCHANGED <<stdin, inputData, installed, content, changes, filePath,
                   sourceFile, next, stderr, calls>>

\* the import editor run on a fresh tree of the request's content
ImportChangeOnOriginal ==
    /\ AtChange
    /\ change.t = "string"
    /\ isImport(changeLower)
    /\ Applied(applyImportChange(createSourceFile(content.s), change.s))

\* lines 102-104
ImportChange ==
    /\ AtChange
    /\ change.t = "string"
    /\ isImport(changeLower)
    /\ Applied(applyImportChange(sourceFile, change.s))

\* lines 106-108
MethodChange ==
    /\ AtChange
    /\ change.t = "string"
    /\ ~isImport(changeLower)
    /\ isMethod(changeLower)
    /\ Applied(applyMethodChange(sourceFile, change.s))

\* lines 110-115
Modification ==
    /\ AtChange
    /\ change.t = "string"
    /\ ~isImport(changeLower)
    /\ ~isMethod(changeLower)
    /\ isModification(changeLower)
    /\ Applied(applyModification(sourceFile, change.s, filePath.s))

\* no branch of lines 102-115 takes the change
Unrecognized ==
    /\ AtChange
    /\ change.t = "string"
    /\ ~isImport(changeLower)
    /\ ~isMethod(changeLower)
    /\ ~isModification(changeLower)
    /\ Applied(Quiet(sourceFile))

\* the tree printed with its surrounding white space trimmed
ApplyEditsReturnTrimmed ==
    /\ pc = "editing"
    /\ next = Len(changes.l)
    /\ Return(ResponseLine(TRUE, Str(trim(getFullText(sourceFile))), Undefined))
    /\ UNCHANGED <<stdin, inputData, installed, content, changes, filePath,
                   sourceFile, next, stderr, calls>>

\* lines 118-124: the loop is over and the tree is printed
ApplyEditsReturn ==
    /\ pc = "editing"
    /\ next = Len(changes.l)
    /\ Return(ResponseLine(TRUE, Str(getFullText(sourceFile)), Undefined))
    /\ UNCHANGED <<stdin, inputData, installed, content, changes, filePath,
                   sourceFile, next, stderr, calls>>

Next ==
    \/ OnData
    \/ OnEndSyntaxError
    \/ OnEndNullInput
    \/ ApplyEditsNotAvailable
    \/ ApplyEditsThrows
    \/ ApplyEditsUnsupported
    \/ ApplyEditsBegin
    \/ ChangeThrows
    \/ ImportChange
    \/ MethodChange
    \/ Modification
    \/ Unrecognized
    \/ ApplyEditsReturn

Spec == Init /\ [][Next]_vars

(***************************************************************************)
(* Properties                                                              *)
(***************************************************************************)
Exited == pc = "exited"
\* the last line written to stdout
LastLine == stdout[Len(stdout)]
\* the input is a JSON object with content, changes and filePath
IsRequest ==
    /\ input.ok /\ input.kind = "object"
    /\ input.content.def /\ input.changes.def /\ input.filePath.def
\* the request's extension, as line 75 computes it
RequestExt == toLowerCase(extname(input.filePath.s))
\* the extensions the interface names as supported
SupportedExtensions == {".js", ".jsx", ".ts", ".tsx"}

\* the request got as far as the loop over its changes
LoopEntered == IsRequest /\ installed /\ isSupported(RequestExt)
\* the tree the loop started from
OriginalTree == createSourceFile(input.content.s)
\* change k of the request is the first that is no string
FirstThrowAt(k) ==
    /\ input.changes.l[k].t # "string"
    /\ \A j \in 1..(k - 1) : input.changes.l[j].t = "string"

\* C1: when a change of the loop throws (at any position, after any number of
\* earlier changes edited the tree) the loop stops at that change, and the one
\* response is success:false with the request's content unchanged and the
\* exception's message.
C1_ExceptionAtomicity ==
    \A k \in 1..Len(input.changes.l) :
        (Exited /\ LoopEntered /\ FirstThrowAt(k)) =>
            /\ next = k - 1
            /\ LastLine.kind = "json"
            /\ LastLine.success = FALSE
            /\ LastLine.content = input.content
            /\ LastLine.error.def /\ LastLine.error.s # ""

\* a later change threw after an earlier one had edited the tree
C1_Witness ==
    /\ Exited /\ LoopEntered
    /\ \E k \in 2..Len(input.changes.l) : FirstThrowAt(k)
    /\ sourceFile # OriginalTree
    /\ getFullText(sourceFile) # input.content.s
    /\ LastLine.content = input.content

\* C2 as stated: every request with an empty changes list is answered
\* success:true with the request's content.
C2_EmptyChangesAlwaysSucceed ==
    (Exited /\ IsRequest /\ input.changes.l = <<>>) =>
        LastLine = ResponseLine(TRUE, input.content, Undefined)

\* C2 amended: a request with an empty changes list, a supported extension and
\* ts-morph loadable is answered success:true with the request's content; under
\* any other extension or without ts-morph the content is still the request's,
\* with success:false.
C2_EmptyChanges ==
    (Exited /\ IsRequest /\ input.changes.l = <<>>) =>
        /\ LastLine.kind = "json"
        /\ LastLine.content = input.content
        /\ LastLine.success = (installed /\ RequestExt \in SupportedExtensions)
        /\ LastLine.success => LastLine = ResponseLine(TRUE, input.content, Undefined)

C2_Witness ==
    /\ Exited /\ IsRequest /\ input.changes.l = <<>>
    /\ input.content.s # ""
    /\ LastLine = ResponseLine(TRUE, input.content, Undefined)

\* C3: the exit code is 0 for every completed response and non-zero only when
\* the input is not valid JSON: every input that parses ends with exit code 0.
C3_ExitCodeOnlyOnBadJson ==
    Exited => (exitCode = <<0>> <=> input.ok)

\* C4: for an input that parses to a request object, applyEdits runs once and
\* the response is the only line on stdout, whatever the changes are.
C4_SingleOutputLine ==
    (Exited /\ input.ok /\ input.kind = "object") =>
        /\ calls = 1
        /\ Len(stdout) = 1
        /\ stdout[1].kind = "json"

\* C5: input that is not valid JSON is answered by one response with
\* success:false, empty content and a non-empty error, and exit code 1.
C5_TransportError ==
    (Exited /\ ~input.ok) =>
        /\ Len(stdout) = 1
        /\ LastLine.kind = "json"
        /\ LastLine.success = FALSE
        /\ LastLine.content = Str("")
        /\ LastLine.error.def /\ LastLine.error.s # ""
        /\ exitCode = <<1>>
        /\ calls = 0

C5_Witness ==
    /\ Exited /\ ~input.ok /\ inputData # <<>>
    /\ LastLine.content = Str("")
    /\ exitCode = <<1>>

\* what C6 says of the answer to a request with an unsupported extension
UnsupportedAnswer ==
    /\ stdout = <<ResponseLine(FALSE, input.content,
                               Str("Unsupported file type: " \o RequestExt))>>
    /\ next = 0
    /\ sourceFile = EmptyFile

\* C6 as stated: every request whose extension is not .js/.jsx/.ts/.tsx is
\* answered "Unsupported file type: <ext>" with the original content, and no
\* change is classified or applied.
C6_UnsupportedAlways ==
    (Exited /\ IsRequest /\ RequestExt \notin SupportedExtensions) => UnsupportedAnswer

\* C6 amended: the same, when ts-morph can be loaded; when it cannot, the
\* answer is the ts-morph error, with the original content and no change applied.
C6_Unsupported ==
    (Exited /\ IsRequest /\ RequestExt \notin SupportedExtensions) =>
        /\ installed => UnsupportedAnswer
        /\ LastLine.success = FALSE
        /\ LastLine.content = input.content
        /\ next = 0
        /\ sourceFile = EmptyFile

C6_Witness ==
    /\ Exited /\ IsRequest /\ installed
    /\ input.filePath.s = "b.Vue"
    /\ input.changes.l # <<>>
    /\ UnsupportedAnswer

\* the change the loop is about to take is an import change naming a module
\* that the tree already imports
ImportOfExistingModule ==
    /\ AtChange
    /\ change.t = "string"
    /\ isImport(changeLower)
    /\ FromRegex(change.s).ok
    /\ alreadyImported(sourceFile, FromRegex(change.s).cap)

\* how often some declaration of the module lists the name
NamedCount(sf, module, name) ==
    Cardinality({p \in UNION {{<<i, j>> : j \in 1..Len(sf.imports[i].namedImports)} :
                                 i \in 1..Len(sf.imports)} :
                    /\ sf.imports[p[1]].moduleSpecifier = module
                    /\ sf.imports[p[1]].namedImports[p[2]] = name})

\* C7: an import change for a module that is already imported merges its named
\* imports into the declaration (every listed name is then listed once) and
\* is a no-op for a default or namespace import.
C7_ImportMerging ==
    [][ImportOfExistingModule =>
          IF ImportNamesRegex(change.s).ok
          THEN \A n \in 1..Len(SplitNames(ImportNamesRegex(change.s).cap)) :
                   NamedCount(sourceFile', FromRegex(change.s).cap,
                              SplitNames(ImportNamesRegex(change.s).cap)[n]) = 1
          ELSE sourceFile' = sourceFile]_vars

\* the declarations of the tree that import the module
ImportCount(sf, module) ==
    Cardinality({i \in 1..Len(sf.imports) : sf.imports[i].moduleSpecifier = module})

\* change k of the batch is an import change that names its module
IsImportFrom(k) ==
    /\ changes.l[k].t = "string"
    /\ isImport(toLowerCase(changes.l[k].s))
    /\ FromRegex(changes.l[k].s).ok

\* C8: once "add import X from 'Y'" was applied, no step up to a later
\* application of the same change adds an import declaration for Y, and a
\* tree that started without one then has exactly one.
C8_ImportIdempotence ==
    [][\A k1, k2 \in 1..Len(changes.l) :
          (/\ AtChange
           /\ k1 <= next /\ next < k2
           /\ IsImportFrom(k1)
           /\ changes.l[k1] = changes.l[k2]) =>
              LET Y == FromRegex(changes.l[k1].s).cap
              IN  /\ ImportCount(sourceFile', Y) <= ImportCount(sourceFile, Y)
                  /\ ImportCount(OriginalTree, Y) = 0 => ImportCount(sourceFile', Y) = 1
      ]_vars

\* no two import declarations of the same module share a named import
NoOverlap(sf) ==
    \A i, j \in 1..Len(sf.imports) :
        (i < j /\ sf.imports[i].moduleSpecifier = sf.imports[j].moduleSpecifier) =>
            \A a \in 1..Len(sf.imports[i].namedImports) :
                \A b \in 1..Len(sf.imports[j].namedImports) :
                    sf.imports[i].namedImports[a] # sf.imports[j].namedImports[b]

\* C9: from source without two import declarations of one module sharing a
\* named import, no sequence of changes produces a tree with two such
\* declarations.
C9_ImportSetInvariant ==
    (pc \in {"editing", "exited"} /\ LoopEntered /\ NoOverlap(OriginalTree)) =>
        NoOverlap(sourceFile)

\* the editors left two declarations of one module, the later one added by them
C9_Witness ==
    /\ Exited /\ LoopEntered /\ LastLine.success
    /\ \E i, j \in 1..Len(sourceFile.imports) :
           /\ i < j
           /\ j > Len(OriginalTree.imports)
           /\ sourceFile.imports[i].moduleSpecifier = sourceFile.imports[j].moduleSpecifier
           /\ sourceFile.imports[i].namedImports # <<>>
           /\ sourceFile.imports[j].namedImports # <<>>

\* change k of the batch goes to applyMethodChange and names a method
IsMethodChange(k) ==
    /\ changes.l[k].t = "string"
    /\ ~isImport(toLowerCase(changes.l[k].s))
    /\ isMethod(toLowerCase(changes.l[k].s))
    /\ MethodRegex(changes.l[k].s).ok

MethodName(k) == MethodRegex(changes.l[k].s).cap

\* the methods of the class that have the name
MethodCount(cls, name) ==
    Cardinality({i \in 1..Len(cls.methods) : cls.methods[i].name = name})

FunctionCount(sf, name) ==
    Cardinality({i \in 1..Len(sf.functions) : sf.functions[i].name = name})

\* C10 as stated: "add method foo" applied twice against source with a class
\* leaves exactly one method foo in the first class and no top-level function
\* foo.
C10_MethodTwiceAlwaysOne ==
    \A k1, k2 \in 1..Len(changes.l) :
        (/\ pc \in {"editing", "exited"}
         /\ k1 < k2 /\ k2 <= next
         /\ IsMethodChange(k1)
         /\ changes.l[k1] = changes.l[k2]
         /\ Len(sourceFile.classes) > 0) =>
            /\ MethodCount(sourceFile.classes[1], MethodName(k1)) = 1
            /\ FunctionCount(sourceFile, MethodName(k1)) = 0

\* C10 amended: applied to a tree with a class in which foo is no method of
\* any class and no top-level function, "add method foo" leaves exactly one
\* method foo in the first class and adds no top-level function; every later
\* application in the batch leaves the tree unchanged.
C10_MethodIdempotence ==
    [][(AtChange /\ IsMethodChange(next + 1)) =>
          /\ (Len(sourceFile.classes) > 0
                /\ ~methodExistsAnywhere(sourceFile, MethodName(next + 1))) =>
                 /\ MethodCount(sourceFile'.classes[1], MethodName(next + 1)) = 1
                 /\ sourceFile'.functions = sourceFile.functions
          /\ (\E k \in 1..next : changes.l[k] = changes.l[next + 1]) =>
                 sourceFile' = sourceFile
      ]_vars

\* "add method foo" went twice through a tree whose first class now has foo
C10_Witness ==
    /\ next >= 2
    /\ IsMethodChange(1)
    /\ changes.l[1] = changes.l[2]
    /\ Len(sourceFile.classes) > 0
    /\ MethodCount(OriginalTree.classes[1], MethodName(1)) = 0
    /\ MethodCount(sourceFile.classes[1], MethodName(1)) = 1

\* the description the loop is about to take is "add back button", and the
\* tree it meets holds @Component and a class
AngularBackButtonDue ==
    /\ AtChange /\ LoopEntered
    /\ change = S("add back button")
    /\ includes(getFullText(sourceFile), "@Component")
    /\ Len(sourceFile.classes) > 0

\* C11: on source holding @Component and a class, "add back button" leaves
\* the first class with a goBack method and the tree with an import of
\* '@angular/router'; applied again, it adds no second goBack method, no
\* second '@angular/router' import and no further constructor parameter.
C11_AngularBackButton ==
    [][AngularBackButtonDue =>
          /\ MethodCount(sourceFile'.classes[1], "goBack") >= 1
          /\ ImportCount(sourceFile', "@angular/router") >= 1
          /\ (\E k \in 1..next : changes.l[k] = change) =>
                 /\ MethodCount(sourceFile'.classes[1], "goBack")
                        = MethodCount(sourceFile.classes[1], "goBack")
                 /\ ImportCount(sourceFile', "@angular/router")
                        = ImportCount(sourceFile, "@angular/router")
                 /\ sourceFile'.classes[1].ctors = sourceFile.classes[1].ctors
      ]_vars

\* "add back button" went twice through an Angular component that had no
\* goBack method and no router import
C11_Witness ==
    /\ LoopEntered /\ next >= 2
    /\ changes.l[1] = S("add back button") /\ changes.l[2] = changes.l[1]
    /\ includes(input.content.s, "@Component")
    /\ ImportCount(OriginalTree, "@angular/router") = 0
    /\ MethodCount(OriginalTree.classes[1], "goBack") = 0
    /\ MethodCount(sourceFile.classes[1], "goBack") = 1
    /\ ImportCount(sourceFile, "@angular/router") = 1
    /\ Len(sourceFile.classes[1].ctors) = 1

\* the markers by which text counts as Angular
AngularMarkers ==
    {"@Component", "@NgModule", "@angular/core", "@angular/common", "@angular/router"}

HoldsAngularMarker(text) == \E m \in AngularMarkers : includes(text, m)

\* the description the loop is about to take is "add state count", and the
\* tree it meets imports from 'react', uses useState and has a component function
AddStateCountDue ==
    /\ AtChange /\ LoopEntered
    /\ change = S("add state count")
    /\ alreadyImported(sourceFile, "react")
    /\ includes(getFullText(sourceFile), "useState")
    /\ firstComponent(sourceFile) > 0

\* after the step the component's first statement declares count/setCount and
\* the 'react' imports list useState once
AddStateCountDone ==
    /\ sourceFile'.functions[firstComponent(sourceFile)].statements[1]
           = Statement("VariableStatement", "const [count, setCount] = useState();")
    /\ NamedCount(sourceFile', "react", "useState") = 1

\* C12 as stated: on source that imports from 'react', uses useState and has a
\* component function, "add state count" makes the first statement of that
\* function declare count/setCount via useState and leaves useState listed
\* exactly once by the 'react' imports.
C12_AddStateOnReactImport ==
    [][AddStateCountDue => AddStateCountDone]_vars

\* C12 amended: the same, for source whose text holds no Angular marker; text
\* that holds one is detected as angular and the change leaves it unchanged.
C12_AddState ==
    [][AddStateCountDue =>
          IF HoldsAngularMarker(getFullText(sourceFile))
          THEN sourceFile' = sourceFile
          ELSE AddStateCountDone]_vars

\* "add state count" met a component whose 'react' imports lacked useState
C12_Witness ==
    /\ LoopEntered /\ next >= 1
    /\ changes.l[1] = S("add state count")
    /\ alreadyImported(OriginalTree, "react")
    /\ includes(input.content.s, "useState")
    /\ NamedCount(OriginalTree, "react", "useState") = 0
    /\ NamedCount(sourceFile, "react", "useState") = 1
    /\ firstComponent(sourceFile) > 0
    /\ \E i \in 1..Len(sourceFile.functions[firstComponent(sourceFile)].statements) :
           sourceFile.functions[firstComponent(sourceFile)].statements[i].text
               = "const [count, setCount] = useState();"

\* the framework the tree is detected as when the loop reaches the change
FrameworkNow == detectFrameworkFromContent(getFullText(sourceFile), filePath.s)

\* the change goes to applyModification and past its button gate
PastButtonGate ==
    /\ ~isImport(changeLower) /\ ~isMethod(changeLower) /\ isModification(changeLower)
    /\ ~includes(changeLower, "add button")
    /\ ~includes(changeLower, "add back button")

\* the change the loop is about to take is a recoverable miss: it matches no
\* rule, or no module or name can be read from it, or the node it targets
\* (class, Props interface, component function) is not in the tree
RecoverableMiss ==
    /\ AtChange /\ LoopEntered
    /\ change.t = "string"
    /\ \/ ~isImport(changeLower) /\ ~isMethod(changeLower) /\ ~isModification(changeLower)
       \/ isImport(changeLower) /\ ~FromRegex(change.s).ok
       \/ ~isImport(changeLower) /\ isMethod(changeLower) /\ ~MethodRegex(change.s).ok
       \/ /\ PastButtonGate
          /\ includes(changeLower, "add prop") /\ PropRegex(change.s).ok
          /\ \/ FrameworkNow = "react" /\ propsInterface(sourceFile) = 0
             \/ FrameworkNow = "angular" /\ Len(sourceFile.classes) = 0
       \/ /\ PastButtonGate
          /\ ~includes(changeLower, "add prop")
          /\ includes(changeLower, "add state") /\ StateRegex(change.s).ok
          /\ FrameworkNow = "react" /\ firstComponent(sourceFile) = 0

\* C13: a recoverable miss leaves the tree unchanged, throws nothing and lets
\* the loop go on to the next change.
C13_MissesLeaveTree ==
    [][RecoverableMiss =>
          /\ sourceFile' = sourceFile
          /\ next' = next + 1
          /\ pc' = "editing"]_vars

\* the change the loop is about to take is an "add state" for a tree that is
\* detected as react and has no function passing the component test
AddStateWithoutComponent ==
    /\ AtChange /\ LoopEntered
    /\ change.t = "string"
    /\ PastButtonGate
    /\ ~includes(changeLower, "add prop")
    /\ includes(changeLower, "add state") /\ StateRegex(change.s).ok
    /\ FrameworkNow = "react"
    /\ \A i \in 1..Len(sourceFile.functions) :
           ~isComponentName(sourceFile.functions[i].name)

\* C20: on a react source with no component function "add state X" leaves the
\* whole tree, its import declarations included, unchanged.
C20_AddStateNoOp ==
    [][AddStateWithoutComponent =>
          /\ sourceFile'.imports = sourceFile.imports
          /\ sourceFile' = sourceFile]_vars

\* the tree the editor picked by lines 102-115 for the description leaves
EditorOutcome(sf, desc, path) ==
    LET lower == toLowerCase(desc)
    IN  IF isImport(lower) THEN applyImportChange(sf, desc).sf
        ELSE IF isMethod(lower) THEN applyMethodChange(sf, desc).sf
        ELSE IF isModification(lower) THEN applyModification(sf, desc, path).sf
        ELSE sf

\* the tree after the first k changes of the request, each applied to the tree
\* left by those before it
RECURSIVE TreeAfter(_)
TreeAfter(k) ==
    IF k = 0 THEN OriginalTree
    ELSE EditorOutcome(TreeAfter(k - 1), input.changes.l[k].s, input.filePath.s)

\* the JSON lines written so far
JsonLines == {i \in 1..Len(stdout) : stdout[i].kind = "json"}

\* C14: the changes are applied in list order to one tree, each against the
\* tree left by all earlier changes (the loop starts from the tree of the
\* request's content and every step hands the tree as it stands to the editor
\* of the next change), and the tree is printed once, after the last change.
C14_SerialApplication ==
    [][/\ (pc = "reading" /\ pc' = "editing") =>
              (sourceFile' = createSourceFile(input.content.s) /\ next' = 0)
       /\ (AtChange /\ change.t = "string") =>
              /\ sourceFile' = EditorOutcome(sourceFile, change.s, filePath.s)
              /\ next' = next + 1
              /\ changes' = changes
              /\ JsonLines' = {}
       /\ (pc = "editing" /\ pc' = "exited" /\ stdout'[Len(stdout')].success) =>
              /\ next = Len(changes.l)
              /\ Cardinality(JsonLines') = 1
              /\ stdout'[Len(stdout')].content = Str(getFullText(sourceFile))
      ]_vars

\* a change that would leave the request's tree as it is edited the tree in
\* the batch, after an earlier change had turned the detected framework
C14_Witness ==
    /\ Exited /\ LoopEntered /\ LastLine.success
    /\ \E j \in 2..Len(input.changes.l) :
           /\ EditorOutcome(OriginalTree, input.changes.l[j].s, input.filePath.s)
                  = OriginalTree
           /\ TreeAfter(j) # TreeAfter(j - 1)
           /\ detectFrameworkFromContent(input.content.s, input.filePath.s)
                  # detectFrameworkFromContent(getFullText(TreeAfter(j - 1)),
                                               input.filePath.s)

\* the chunks in arrival order, as one text
RECURSIVE Flatten(_)
Flatten(chunks) ==
    IF chunks = <<>> THEN <<>> ELSE Head(chunks) \o Flatten(Tail(chunks))

\* what was read so far followed by what is still to arrive
WholeInput == inputData \o Flatten(stdin)

\* C15: whatever the split into chunks, inputData grows into the
\* concatenation of the chunks in arrival order, and nothing is parsed and no
\* response is written while a chunk is still to arrive.
C15_ReadToEnd ==
    [][/\ WholeInput' = WholeInput
       /\ stdin # <<>> => (stdout' = <<>> /\ calls' = 0 /\ exitCode' = <<>>)
       /\ (stdout' # stdout \/ calls' # calls) =>
              (stdin = <<>> /\ inputData' = inputData)
      ]_vars

\* the text read so far is valid JSON by itself, a chunk is still to arrive,
\* and nothing has been parsed or written
C15_Witness ==
    /\ pc = "reading"
    /\ inputData # <<>> /\ stdin # <<>>
    /\ JSONParse(inputData).ok
    /\ ~JSONParse(WholeInput).ok
    /\ stdout = <<>> /\ calls = 0

\* C16: a description containing "import" is handled by the import editor and
\* by no other, whatever else it contains; one containing "add method" or
\* "add function" and not "import" is handled by the method editor and by no
\* other, also when it contains a modification keyword.
C16_ClassifierPrecedence ==
    [][(AtChange /\ LoopEntered /\ change.t = "string") =>
          IF includes(changeLower, "import")
          THEN /\ sourceFile' = applyImportChange(sourceFile, change.s).sf
               /\ stderr' = stderr \o applyImportChange(sourceFile, change.s).warn
               /\ stdout' = stdout
          ELSE IF \/ includes(changeLower, "add method")
                  \/ includes(changeLower, "add function")
          THEN /\ sourceFile' = applyMethodChange(sourceFile, change.s).sf
               /\ stderr' = stderr
               /\ stdout' = stdout
          ELSE IF isModification(changeLower)
          THEN sourceFile' = applyModification(sourceFile, change.s, filePath.s).sf
          ELSE sourceFile' = sourceFile /\ stdout' = stdout /\ stderr' = stderr
      ]_vars

\* "add method importData" went to the import editor, which left the class
\* without the method, and "add function changeName" went to the method editor
C16_Witness ==
    /\ LoopEntered /\ next >= 2
    /\ changes.l[1] = S("add method importData")
    /\ changes.l[2] = S("add function changeName")
    /\ Len(sourceFile.classes) > 0
    /\ ~methodExistsAnywhere(sourceFile, "importData")
    /\ MethodCount(sourceFile.classes[1], "changeName") = 1

\* the change the loop is about to take matches rule 3 and neither rule 1 nor
\* rule 2
RuleThreeDue ==
    /\ AtChange /\ LoopEntered
    /\ change.t = "string"
    /\ ~isImport(changeLower) /\ ~isMethod(changeLower)
    /\ isModification(changeLower)

\* the step did what the editor did: its tree and its lines on stdout
StepIs(edit) == sourceFile' = edit.sf /\ stdout' = stdout \o edit.out

\* C17: a rule-3 description is dispatched by its sub-keyword: every one
\* containing "add back" reaches the back-button generator, one containing
\* "add button" (and not "add back") the button editor, one containing "add
\* navigation" or "add route" (and no other sub-keyword) the navigation editor.
C17_RuleThreeDispatch ==
    [][RuleThreeDue =>
          IF includes(changeLower, "add back")
          THEN StepIs(applyBackButton(sourceFile, FrameworkNow))
          ELSE IF includes(changeLower, "add button")
          THEN StepIs(applyButton(sourceFile, change.s, FrameworkNow))
          ELSE IF /\ \/ includes(changeLower, "add navigation")
                     \/ includes(changeLower, "add route")
                  /\ ~includes(changeLower, "add prop")
                  /\ ~includes(changeLower, "add state")
          THEN StepIs(applyNavigation(sourceFile, FrameworkNow))
          ELSE TRUE
      ]_vars

ReactMarkers ==
    {"import React", "from 'react'", "from \"react\"", "useState", "useEffect",
     "useNavigate"}
VueMarkers == {"defineComponent", "from 'vue'", "from \"vue\"", "<template>"}
NextMarkers == {"next/router", "next/link", "next/navigation"}

HoldsReactMarker(text, ext) ==
    \/ \E m \in ReactMarkers : includes(text, m)
    \/ ext = ".tsx" /\ includes(text, "return (")
HoldsVueMarker(text, ext) ==
    ext = ".vue" \/ \E m \in VueMarkers : includes(text, m)
HoldsNextMarker(text) ==
    \/ \E m \in NextMarkers : includes(text, m)
    \/ includes(text, "useRouter") /\ includes(text, "next")

\* the line the back-button branch logs for a framework
GeneratedFor(framework) ==
    LogLine("Generated back button for " \o framework \o " framework")

\* C18: the framework detected for a text is the first match of the list
\* Angular markers, React markers, Vue markers, Next.js markers, '.tsx'
\* (react), otherwise unknown; it is read here off the line that the
\* back-button branch logs with the framework it detected.
C18_FrameworkDetection ==
    [][(AtChange /\ LoopEntered /\ change = S("add back button")) =>
          LET text == getFullText(sourceFile)
              ext == RequestExt
              line == stdout'[Len(stdout')]
              A == HoldsAngularMarker(text)
              R == HoldsReactMarker(text, ext)
              V == HoldsVueMarker(text, ext)
              N == HoldsNextMarker(text)
          IN  /\ Len(stdout') = Len(stdout) + 1
              /\ line \in {GeneratedFor(f) :
                              f \in {"react", "angular", "vue", "nextjs", "unknown"}}
              /\ A => line = GeneratedFor("angular")
              /\ (R /\ ~A) => line = GeneratedFor("react")
              /\ (V /\ ~A /\ ~R) => line = GeneratedFor("vue")
              /\ line = GeneratedFor("nextjs") <=> (N /\ ~A /\ ~R /\ ~V)
              /\ (~A /\ ~R /\ ~V /\ ~N) =>
                     line = GeneratedFor(IF ext = ".tsx" THEN "react" ELSE "unknown")
      ]_vars

\* a text holding a React marker and an Angular marker was detected as angular
C18_Witness ==
    /\ LoopEntered /\ next >= 1
    /\ changes.l[1] = S("add back button")
    /\ HoldsAngularMarker(input.content.s)
    /\ HoldsReactMarker(input.content.s, RequestExt)
    /\ stdout # <<>>
    /\ stdout[1] = GeneratedFor("angular")

\* C19: when ts-morph cannot be loaded, the one response is success:false with
\* the request's content and an error naming ts-morph and the install remedy,
\* no change is applied, and the exit code is 0.
C19_CapabilityError ==
    (Exited /\ input.ok /\ input.kind # "null" /\ ~installed) =>
        /\ Len(stdout) = 1
        /\ LastLine.kind = "json"
        /\ LastLine.success = FALSE
        /\ LastLine.content = input.content
        /\ LastLine.error.def
        /\ includes(LastLine.error.s, "ts-morph not available")
        /\ includes(LastLine.error.s, "npm install ts-morph")
        /\ next = 0
        /\ sourceFile = EmptyFile
        /\ exitCode = <<0>>

\* a request with a supported path and a change was refused for want of ts-morph
C19_Witness ==
    /\ Exited /\ IsRequest /\ ~installed
    /\ RequestExt \in SupportedExtensions
    /\ input.changes.l # <<>>
    /\ input.content.s # ""
    /\ LastLine.content = input.content
    /\ exitCode = <<0>>

\* the description the loop is about to take is "add back button", on a tree
\* detected as react that has a target component function
ReactBackButtonDue ==
    /\ AtChange /\ LoopEntered
    /\ change = S("add back button")
    /\ FrameworkNow = "react"
    /\ firstComponent(sourceFile) > 0

\* the statements of the target function before the step, and after it
TargetBody == sourceFile.functions[firstComponent(sourceFile)].statements
TargetBodyAfter == sourceFile'.functions[firstComponent(sourceFile)].statements

\* the setup lines the react generator hands back for the tree
SetupLines == VariableStatements(generateBackButton("react", sourceFile).code)

\* C21: whenever the body of the target function holds a return statement, at
\* whatever index, the first included, the setup lines stand after the step
\* immediately before the first return, in the order of the snippet.
C21_InsertBeforeReturn ==
    [][(ReactBackButtonDue /\ firstReturn(TargetBody) > 0) =>
          LET r == firstReturn(TargetBody)
          IN  TargetBodyAfter =
                  SubSeq(TargetBody, 1, r - 1) \o SetupLines
                      \o SubSeq(TargetBody, r, Len(TargetBody))
      ]_vars

\* the change the loop is about to take goes to the regular button branch, on
\* a tree detected as angular or vue that has a class
ButtonDue ==
    /\ RuleThreeDue
    /\ includes(changeLower, "add button")
    /\ ~includes(changeLower, "back")
    /\ FrameworkNow \in {"angular", "vue"}
    /\ Len(sourceFile.classes) > 0

\* the click handler the description names, 'handleClick' when it names none
ClickHandler ==
    IF OnClickRegex(change.s).ok THEN trim(OnClickRegex(change.s).cap)
    ELSE "handleClick"

\* C22: after an AddButton change on angular or vue the first class has
\* exactly one method named after the click handler: it is added only when the
\* class has none of that name, so the change applied twice leaves one.
C22_HandlerOnce ==
    [][ButtonDue =>
          /\ MethodCount(sourceFile'.classes[1], ClickHandler) = 1
          /\ MethodCount(sourceFile.classes[1], ClickHandler) > 0 =>
                 sourceFile' = sourceFile
      ]_vars

\* q2 is q1 with one element of the name appended
AppendedNamed(q1, q2, name) ==
    /\ Len(q2) = Len(q1) + 1
    /\ SubSeq(q2, 1, Len(q1)) = q1
    /\ q2[Len(q2)].name = name

RouterParams(cls) ==
    {<<i, j>> \in (1..Len(cls.ctors)) \X (1..2 * MaxChanges + 2) :
        j <= Len(cls.ctors[i]) /\ cls.ctors[i][j].type = "Router"}

\* the description the loop is about to take reaches the angular back-button
\* editor, and the tree it meets holds @Component and a class
AngularRouterEditDue ==
    /\ AtChange /\ LoopEntered
    /\ change \in {S("add back button"), S("add navigation")}
    /\ includes(getFullText(sourceFile), "@Component")
    /\ Len(sourceFile.classes) > 0

ReactGeneratorDue ==
    /\ AtChange /\ LoopEntered
    /\ change = S("add back button")
    /\ FrameworkNow = "react"

\* the tree imports one of the two router modules
HasRouterImport(sf) ==
    ImportCount(sf, "react-router-dom") + ImportCount(sf, "next/navigation") > 0

\* C25: the react back-button editor, on a tree without an import of
\* 'react-router-dom' or 'next/navigation', appends exactly one import:
\* useRouter from 'next/navigation' when the text holds 'next/navigation' or
\* 'next/router', else useNavigate from 'react-router-dom'.  On a tree with
\* such an import the imports stay as they are and the one line handed to the
\* component is the browser-history back action.
C25_RouterChoice ==
    [][ReactGeneratorDue =>
          LET text == getFullText(sourceFile)
              nextJs == includes(text, "next/navigation") \/ includes(text, "next/router")
              n == Len(sourceFile.imports)
          IN  IF HasRouterImport(sourceFile)
              THEN /\ sourceFile'.imports = sourceFile.imports
                   /\ (firstComponent(sourceFile) > 0 /\ firstReturn(TargetBody) > 1) =>
                          TargetBodyAfter = insertStatements(TargetBody,
                              firstReturn(TargetBody) - 1,
                              <<Statement("VariableStatement",
                                  "const handleBack = () => window.history.back();")>>)
              ELSE /\ Len(sourceFile'.imports) = n + 1
                   /\ SubSeq(sourceFile'.imports, 1, n) = sourceFile.imports
                   /\ sourceFile'.imports[n + 1].defaultImport = ""
                   /\ sourceFile'.imports[n + 1].namespaceImport = ""
                   /\ sourceFile'.imports[n + 1].moduleSpecifier =
                          (IF nextJs THEN "next/navigation" ELSE "react-router-dom")
                   /\ sourceFile'.imports[n + 1].namedImports =
                          (IF nextJs THEN <<"useRouter">> ELSE <<"useNavigate">>)
      ]_vars

\* a page that imports from 'next/router' took "add back button" and now
\* imports useRouter from 'next/navigation', and nothing from react-router-dom
C25_Witness ==
    /\ LoopEntered /\ next >= 1
    /\ changes.l[1] = S("add back button")
    /\ includes(input.content.s, "next/router")
    /\ ~HasRouterImport(OriginalTree)
    /\ NamedCount(sourceFile, "next/navigation", "useRouter") = 1
    /\ ImportCount(sourceFile, "react-router-dom") = 0

UpperLetters ==
    {"A", "B", "C", "D", "E", "F", "G", "H", "I", "J", "K", "L", "M",
     "N", "O", "P", "Q", "R", "S", "T", "U", "V", "W", "X", "Y", "Z"}

\* the description the loop is about to take is "add back button" or an
\* "add state <name>"
ComponentEditDue ==
    /\ AtChange /\ LoopEntered
    /\ change.t = "string"
    /\ change = S("add back button") \/ includes(change.s, "add state ")

\* C26: the back-button editor and AddState never touch a top-level function
\* whose name begins with anything but an uppercase letter: such a function
\* has the same statements after the step as before it.
C26_ComponentHeuristic ==
    [][ComponentEditDue =>
          \A i \in 1..Len(sourceFile.functions) :
              Char(sourceFile.functions[i].name, 1) \notin UpperLetters =>
                  sourceFile'.functions[i] = sourceFile.functions[i]]_vars

\* the description the loop is about to take is "add prop title", on a tree
\* detected as react
AddPropTitleDue ==
    /\ AtChange /\ LoopEntered
    /\ change = S("add prop title")
    /\ FrameworkNow = "react"

\* the interfaces whose name holds "props" in whatever case
PropsNamed(sf) ==
    {i \in 1..Len(sf.interfaces) : includes(toLowerCase(sf.interfaces[i].name), "props")}

\* C27: on react, "add prop title" appends the property title to the first
\* interface whose name holds "Props" in whatever case (ButtonProps,
\* buttonprops, BUTTONPROPS), and leaves the tree as it is when there is none.
C27_AddPropReact ==
    [][AddPropTitleDue =>
          IF PropsNamed(sourceFile) = {} THEN sourceFile' = sourceFile
          ELSE sourceFile' =
                   [sourceFile EXCEPT !.interfaces[SetMin(PropsNamed(sourceFile))].props =
                        Append(@, "title")]]_vars

\* the statements of the body that declare handleBack
HandleBackDeclarations(body) ==
    {i \in 1..Len(body) : includes(body[i].text, "const handleBack = ")}

\* the batch begins with "add back button" twice, on a source detected as
\* react that imports no router and whose target function has its first
\* return after its first statement
TwoBackButtons ==
    /\ LoopEntered
    /\ Len(changes.l) >= 2
    /\ changes.l[1] = S("add back button") /\ changes.l[2] = S("add back button")
    /\ detectFrameworkFromContent(input.content.s, filePath.s) = "react"
    /\ ~HasRouterImport(OriginalTree)
    /\ firstComponent(OriginalTree) > 0
    /\ firstReturn(OriginalTree.functions[firstComponent(OriginalTree)].statements) > 1

\* C28: applied twice to such a source, "add back button" first adds one
\* router import and two statements before the return, the second of them
\* declaring handleBack; the second application adds no import and inserts
\* the browser-history declaration of handleBack before the return, so the
\* body holds two declarations of handleBack.
C28_BackButtonTwice ==
    (TwoBackButtons /\ pc = "editing" /\ next \in {1, 2}) =>
        LET t == firstComponent(OriginalTree)
            before == OriginalTree.functions[t].statements
            r == firstReturn(before)
            body == sourceFile.functions[t].statements
        IN  /\ Len(sourceFile.imports) = Len(OriginalTree.imports) + 1
            /\ HasRouterImport(sourceFile)
            /\ SubSeq(body, 1, r - 1) = SubSeq(before, 1, r - 1)
            /\ r + 1 \in HandleBackDeclarations(body)
            /\ next = 1 =>
                   /\ Len(body) = Len(before) + 2
                   /\ HandleBackDeclarations(body) = {r + 1}
                   /\ SubSeq(body, r + 2, Len(body)) = SubSeq(before, r, Len(before))
            /\ next = 2 =>
                   /\ Len(body) = Len(before) + 3
                   /\ HandleBackDeclarations(body) = {r + 1, r + 2}
                   /\ body[r + 2] = Statement("VariableStatement",
                          "const handleBack = () => window.history.back();")
                   /\ SubSeq(body, r + 3, Len(body)) = SubSeq(before, r, Len(before))

\* the second "add back button" has run and the body declares handleBack twice
C28_Witness ==
    /\ TwoBackButtons /\ next = 2
    /\ Cardinality(HandleBackDeclarations(
           sourceFile.functions[firstComponent(OriginalTree)].statements)) = 2

\* the changes taken so far are all "add state <name>", on a source detected
\* as react that has a target function
OnlyAddStateSoFar ==
    /\ LoopEntered
    /\ pc # "reading"
    /\ detectFrameworkFromContent(input.content.s, filePath.s) = "react"
    /\ firstComponent(OriginalTree) > 0
    /\ \A k \in 1..next :
           /\ changes.l[k].t = "string"
           /\ includes(changes.l[k].s, "add state ")

\* the declaration that change k asks for
DeclarationOf(k) ==
    LET name == StateRegex(changes.l[k].s).cap
    IN  Statement("VariableStatement",
                  "const [" \o name \o ", set" \o UpperChar(Char(name, 1))
                      \o SubSeq(name, 2, Len(name)) \o "] = useState();")

\* C29: after k AddState changes on a react component the body of the target
\* function is the k declarations in the reverse of the input order (a name
\* given twice is declared twice) followed by the original body, and useState
\* is listed exactly once among the named imports of 'react'.
C29_AddStateOrder ==
    OnlyAddStateSoFar =>
        LET t == firstComponent(OriginalTree)
        IN  /\ sourceFile.functions[t].statements =
                   [i \in 1..next |-> DeclarationOf(next + 1 - i)]
                       \o OriginalTree.functions[t].statements
            /\ next >= 1 => NamedCount(sourceFile, "react", "useState") = 1

\* ["add state a", "add state b"] were applied: b's declaration is first, then
\* a's, then the original return statement
C29_Witness ==
    /\ OnlyAddStateSoFar /\ next = 2
    /\ changes.l[1] = S("add state a") /\ changes.l[2] = S("add state b")
    /\ sourceFile.functions[1].statements =
           <<Statement("VariableStatement", "const [b, setB] = useState();"),
             Statement("VariableStatement", "const [a, setA] = useState();"),
             Statement("ReturnStatement", "return null;")>>

\* the positions of the result objects among the lines of standard output
Responses == {i \in 1..Len(stdout) : stdout[i].kind = "json"}

\* shape (a): success, no error, the printed tree after all changes, exit 0
ShapeSuccess(r) ==
    /\ r.success /\ ~r.error.def
    /\ LoopEntered /\ next = Len(changes.l)
    /\ r.content = Str(getFullText(sourceFile))
    /\ exitCode = <<0>>

\* shape (b): failure, an error, the content member of the request, exit 0
ShapeFailure(r) ==
    /\ ~r.success /\ r.error.def
    /\ input.ok /\ r.content = input.content
    /\ exitCode = <<0>>

\* shape (c): failure, an error, empty content, exit 1
ShapeFatal(r) ==
    /\ ~r.success /\ r.error.def
    /\ r.content = Str("")
    /\ exitCode = <<1>>

\* C30: standard output holds a result object only as its last line, once the
\* process has ended, and that object has exactly one of the shapes (a), (b)
\* and (c): success never comes with an error, and a failure carries the
\* request's content or the empty string, never the edited tree.
C30_ResponseShape ==
    /\ Exited => Responses = {Len(stdout)}
    /\ ~Exited => Responses = {}
    /\ \A i \in Responses :
           LET r == stdout[i]
           IN  Cardinality({shape \in {"a", "b", "c"} :
                               \/ shape = "a" /\ ShapeSuccess(r)
                               \/ shape = "b" /\ ShapeFailure(r)
                               \/ shape = "c" /\ ShapeFatal(r)}) = 1

\* a failure answered after the tree was edited: the response carries the
\* request's content, which is no longer the text of the tree
C30_Witness ==
    /\ Exited /\ LoopEntered /\ next >= 1
    /\ ~LastLine.success /\ LastLine.error.def
    /\ LastLine.content = input.content
    /\ getFullText(sourceFile) # input.content.s
    /\ exitCode = <<0>>

====
